---------------------------- MODULE Spec2Model ----------------------------
(***************************************************************************)
(* rest-to-smtp: one HTTP endpoint, POST /send-email, that relays a        *)
(* message through the SMTP server named in the request.                   *)
(*                                                                         *)
(* The repository holds three parallel implementations of the endpoint.    *)
(* The variable impl says which one serves the request:                    *)
(*   "gonet"   Go, net/smtp: handlers/email.go with the first              *)
(*             services/email.go (lines 1-332): string port, a pre-flight  *)
(*             probe, a worker goroutine raced against a 30 s context.     *)
(*   "gomail"  Go, go-mail: handlers/email.go with models/email.go         *)
(*             (integer port, custom UnmarshalJSON) and the second         *)
(*             services/email.go (lines 334-480).                          *)
(*   "node"    TypeScript: controllers/email.controller.ts with the zod    *)
(*             schema (unnamed/part_000) and the nodemailer service        *)
(*             (unnamed/part_001).                                         *)
(*                                                                         *)
(* Strings are sequences of one-character strings, so that Contains, Atoi  *)
(* and Itoa are computed and not assumed.  A message (an error text, a     *)
(* response message) is a sequence of parts: a literal of the source, the  *)
(* value of a request field interpolated by a format verb, or text that    *)
(* a library or the SMTP server produced.                                  *)
(***************************************************************************)
EXTENDS Integers, Sequences, FiniteSets, TLC

\* Number of requests served one after the other in a run.
MaxRequests == 2

---------------------------------------------------------------------------
(* Strings *)

Str0 == <<>>
DigitChars == <<"0", "1", "2", "3", "4", "5", "6", "7", "8", "9">>
Letters == {"h", "c", "z", "u", "d", "t", "s", "b", "p", "q", "x"}

\* strings.Contains(s, c) for a one-character c
Contains(s, c) == \E i \in 1..Len(s) : s[i] = c

IsDigit(c) == \E d \in 1..10 : DigitChars[d] = c
DigitVal(c) == (CHOOSE d \in 1..10 : DigitChars[d] = c) - 1

RECURSIVE DigitsVal(_)
DigitsVal(s) ==
    IF Len(s) = 0 THEN 0
    ELSE 10 * DigitsVal(SubSeq(s, 1, Len(s) - 1)) + DigitVal(s[Len(s)])

AllDigits(s) == Len(s) > 0 /\ \A i \in 1..Len(s) : IsDigit(s[i])

\* strconv.Atoi: an optional sign, then one or more decimal digits.
AtoiOk(s) ==
    \/ AllDigits(s)
    \/ Len(s) > 1 /\ s[1] \in {"+", "-"} /\ AllDigits(Tail(s))

Atoi(s) ==
    IF AllDigits(s) THEN DigitsVal(s)
    ELSE IF s[1] = "-" THEN 0 - DigitsVal(Tail(s))
    ELSE DigitsVal(Tail(s))

\* The decimal rendering of an integer (fmt %d, and the string the
\* net/smtp variant holds in SMTPPort).
RECURSIVE ItoaNat(_)
ItoaNat(n) ==
    IF n < 10 THEN <<DigitChars[n + 1]>>
    ELSE Append(ItoaNat(n \div 10), DigitChars[(n % 10) + 1])

Itoa(n) == IF n < 0 THEN <<"-">> \o ItoaNat(0 - n) ELSE ItoaNat(n)

---------------------------------------------------------------------------
(* Messages *)

L(text) == [k |-> "lit", v |-> text]     \* a literal of the source
F(field) == [k |-> "field", v |-> field] \* the value of a request field
X(text) == [k |-> "lib", v |-> text]     \* text of a library or of the server

NoErr == <<>>
IsErr(e) == e # NoErr

\* fmt.Errorf(prefix + "%v", err), and JavaScript's `${prefix}${message}`
Wrap(prefix, e) == <<L(prefix)>> \o e

\* The same, for a call whose error the function returns as it is.
WrapPre(prefix, e) == IF prefix = "" THEN e ELSE Wrap(prefix, e)

---------------------------------------------------------------------------
(* The JSON body of a request *)

Absent == [t |-> "absent"]
JS(s) == [t |-> "str", s |-> s]
JN(w, f) == [t |-> "num", whole |-> w, frac |-> f] \* the number w.f, f one digit
JBool == [t |-> "bool"]

HostVals == {Absent, JS(Str0), JS(<<"h">>), JS(<<"h", ".", "c", "z">>)}
PortVals ==
    {Absent, JBool,
     JN(25, 0), JN(587, 0), JN(465, 0), JN(2525, 0), JN(0, 0), JN(587, 5),
     JS(<<"2", "5">>), JS(<<"5", "8", "7">>), JS(<<"4", "6", "5">>),
     JS(<<"2", "5", "2", "5">>),
     JS(<<"0">>), JS(<<"x">>), JS(Str0)}
UserVals == {JS(Str0), JS(<<"u">>), JS(<<"u", "@", "d", ".", "c", "z">>)}
PassVals == {JS(Str0), JS(<<"p">>), JS(<<"q">>)}
ToVals == {JS(Str0), JS(<<"t">>), JS(<<"t", "@", "d", ".", "c", "z">>)}
SubjectVals == {JS(Str0), JS(<<"s">>)}
BodyVals == {Absent, JS(Str0), JS(<<"b">>)}

FieldNames ==
    <<"smtp_host", "smtp_port", "username", "password", "to", "subject", "body">>

WellFormed ==
    [malformed : {FALSE}, smtp_host : HostVals, smtp_port : PortVals,
     username : UserVals, password : PassVals, to : ToVals,
     subject : SubjectVals, body : BodyVals]

\* A body that is not JSON at all: no field can be read from it.
Garbage ==
    [malformed |-> TRUE, smtp_host |-> Absent, smtp_port |-> Absent,
     username |-> JS(Str0), password |-> JS(Str0), to |-> JS(Str0),
     subject |-> JS(Str0), body |-> Absent]

Bodies == WellFormed \cup {Garbage}

\* A string field of a Go struct: an absent key leaves the zero value "".
GoString(j) == IF j.t = "str" THEN j.s ELSE Str0

\* The caller wrote this field and it is not the empty string.
Supplied(j) ==
    CASE j.t = "absent" -> FALSE
      [] j.t = "str" -> j.s # Str0
      [] OTHER -> TRUE

NoReq == [none |-> TRUE]

MkReq(j, port) ==
    [SMTPHost |-> GoString(j.smtp_host), SMTPPort |-> port,
     Username |-> GoString(j.username), Password |-> GoString(j.password),
     To |-> GoString(j.to), Subject |-> GoString(j.subject),
     Body |-> GoString(j.body)]

---------------------------------------------------------------------------
(* Decoding: internal/models/email.go *)

\* An UnmarshalJSON without the case for a string.
UnmarshalJSON_NumbersOnly(j) ==
    IF j.malformed
    THEN [err |-> <<X("json: syntax error")>>, req |-> NoReq]
    ELSE IF j.smtp_port.t = "num"
    THEN [err |-> NoErr, req |-> MkReq(j, j.smtp_port.whole)]
    ELSE [err |-> <<L("smtp_port must be a number")>>, req |-> NoReq]

\* EmailRequest.UnmarshalJSON of the go-mail variant: the port may be a JSON
\* string (strconv.Atoi) or a JSON number (a float64, converted by int(v),
\* which drops the fractional part); anything else is refused.
UnmarshalJSON(j) ==
    IF j.malformed
    THEN [err |-> <<X("json: syntax error")>>, req |-> NoReq]
    ELSE CASE j.smtp_port.t = "str" ->
                IF AtoiOk(j.smtp_port.s)
                THEN [err |-> NoErr, req |-> MkReq(j, Atoi(j.smtp_port.s))]
                ELSE [err |-> <<L("invalid smtp_port: "),
                                L("strconv.Atoi: parsing "), F("smtp_port"),
                                L(": invalid syntax")>>,
                      req |-> NoReq]
           [] j.smtp_port.t = "num" ->
                [err |-> NoErr, req |-> MkReq(j, j.smtp_port.whole)]
           [] OTHER ->
                [err |-> <<L("smtp_port must be a number")>>, req |-> NoReq]

\* The net/smtp variant holds SMTPPort as a string (it compares it with ""
\* and "465", and formats it with %s); its struct is not among the sources.
\* encoding/json fills a string field from a JSON string, leaves it "" when
\* the key is absent, and refuses any other JSON type.
UnmarshalStringPort(j) ==
    IF j.malformed
    THEN [err |-> <<X("json: syntax error")>>, req |-> NoReq]
    ELSE CASE j.smtp_port.t = "str" ->
                [err |-> NoErr, req |-> MkReq(j, j.smtp_port.s)]
           [] j.smtp_port.t = "absent" ->
                [err |-> NoErr, req |-> MkReq(j, Str0)]
           [] OTHER ->
                [err |-> <<X("json: cannot unmarshal into Go struct field of type string")>>,
                 req |-> NoReq]

---------------------------------------------------------------------------
(* Validation *)

SupportedPorts == {25, 587, 465}

\* ValidateEmailRequest of the go-mail variant (integer port).
ValidateEmailRequest(r) ==
    IF r.SMTPHost = Str0 THEN <<L("smtp_host is required")>>
    ELSE IF r.SMTPPort = 0 THEN <<L("smtp_port is required")>>
    ELSE IF r.Username = Str0 THEN <<L("username is required")>>
    ELSE IF r.Password = Str0 THEN <<L("password is required")>>
    ELSE IF r.To = Str0 THEN <<L("to is required")>>
    ELSE IF r.Subject = Str0 THEN <<L("subject is required")>>
    ELSE IF r.Body = Str0 THEN <<L("body is required")>>
    ELSE IF ~Contains(r.SMTPHost, ".") THEN <<L("invalid SMTP host format")>>
    ELSE IF r.SMTPPort \notin SupportedPorts
         THEN <<L("unsupported SMTP port: "), F("smtp_port"),
                L(" (supported: 25, 587, 465)")>>
    ELSE IF ~Contains(r.To, "@") THEN <<L("invalid recipient email address")>>
    ELSE IF ~Contains(r.Username, "@") THEN <<L("invalid sender email address")>>
    ELSE NoErr

\* ValidateEmailRequest of the net/smtp variant (string port).
ValidateEmailRequestStr(r) ==
    IF r.SMTPHost = Str0 THEN <<L("smtp_host is required")>>
    ELSE IF r.SMTPPort = Str0 THEN <<L("smtp_port is required")>>
    ELSE IF r.Username = Str0 THEN <<L("username is required")>>
    ELSE IF r.Password = Str0 THEN <<L("password is required")>>
    ELSE IF r.To = Str0 THEN <<L("to is required")>>
    ELSE IF r.Subject = Str0 THEN <<L("subject is required")>>
    ELSE IF ~Contains(r.To, "@") THEN <<L("invalid email address format")>>
    ELSE IF ~Contains(r.SMTPHost, ".") THEN <<L("invalid SMTP host format")>>
    ELSE IF r.SMTPPort \notin {Itoa(25), Itoa(587), Itoa(465)}
         THEN <<L("invalid SMTP port. Use 25, 587, or 465")>>
    ELSE NoErr

\* The zod schema of the TypeScript variant.  Every failing check of every
\* field adds an issue "<path>: <message>"; a value of the wrong type (or an
\* absent key) stops the checks of that field.
MaxSubjectLen == 200
MaxBodyLen == 10000
MinPort == 1
MaxPort == 65535

IsLetter(c) == c \in Letters

\* /^[a-zA-Z0-9.-]+\.[a-zA-Z]{2,}$/
HostRegex(s) ==
    /\ \A i \in 1..Len(s) : IsLetter(s[i]) \/ IsDigit(s[i]) \/ s[i] \in {".", "-"}
    /\ \E i \in 2..Len(s) :
          /\ s[i] = "."
          /\ Len(s) - i >= 2
          /\ \A k \in (i + 1)..Len(s) : IsLetter(s[k])

\* zod's .email(): a local part, one "@", and a dotted domain whose last
\* label has two letters or more.
EmailRegex(s) ==
    \E i \in 2..Len(s) :
        /\ s[i] = "@"
        /\ \A k \in 1..Len(s) : k # i => s[k] # "@"
        /\ \E d \in (i + 2)..Len(s) :
              /\ s[d] = "."
              /\ Len(s) - d >= 2
              /\ \A k \in (d + 1)..Len(s) : IsLetter(s[k])

Issue(path, message) == <<L(path), L(": "), L(message)>>

HostIssues(j) ==
    IF j.t # "str" THEN <<Issue("smtp_host", "Required")>>
    ELSE (IF Len(j.s) < 1 THEN <<Issue("smtp_host", "SMTP host is required")>> ELSE <<>>)
         \o (IF ~HostRegex(j.s) THEN <<Issue("smtp_host", "Invalid SMTP host format")>> ELSE <<>>)

PortIssues(j) ==
    CASE j.t = "absent" -> <<Issue("smtp_port", "Required")>>
      [] j.t # "num" -> <<Issue("smtp_port", "Expected number, received another type")>>
      [] OTHER ->
           (IF j.frac # 0 THEN <<Issue("smtp_port", "Port must be an integer")>> ELSE <<>>)
           \o (IF j.whole < MinPort
               THEN <<Issue("smtp_port", "Port must be greater than 0")>> ELSE <<>>)
           \o (IF j.whole > MaxPort \/ (j.whole = MaxPort /\ j.frac > 0)
               THEN <<Issue("smtp_port", "Port must be less than 65536")>> ELSE <<>>)
           \o (IF ~(j.frac = 0 /\ j.whole \in SupportedPorts)
               THEN <<Issue("smtp_port",
                            "Unsupported SMTP port. Supported ports: 25, 587, 465")>>
               ELSE <<>>)

AddressIssues(j, path, required, invalid) ==
    IF j.t # "str" THEN <<Issue(path, "Required")>>
    ELSE (IF Len(j.s) < 1 THEN <<Issue(path, required)>> ELSE <<>>)
         \o (IF ~EmailRegex(j.s) THEN <<Issue(path, invalid)>> ELSE <<>>)

TextIssues(j, path, required, max, tooLong) ==
    IF j.t # "str" THEN <<Issue(path, "Required")>>
    ELSE (IF Len(j.s) < 1 THEN <<Issue(path, required)>> ELSE <<>>)
         \o (IF Len(j.s) > max THEN <<Issue(path, tooLong)>> ELSE <<>>)

PasswordIssues(j) ==
    IF j.t # "str" THEN <<Issue("password", "Required")>>
    ELSE IF Len(j.s) < 1 THEN <<Issue("password", "Password is required")>> ELSE <<>>

\* emailRequestSchema.safeParse: the issues, in the order of the schema's keys.
SchemaIssues(j) ==
    HostIssues(j.smtp_host)
    \o PortIssues(j.smtp_port)
    \o AddressIssues(j.username, "username", "Username is required",
                     "Invalid email address format")
    \o PasswordIssues(j.password)
    \o AddressIssues(j.to, "to", "Recipient email is required",
                     "Invalid recipient email address")
    \o TextIssues(j.subject, "subject", "Subject is required", MaxSubjectLen,
                  "Subject must be less than 200 characters")
    \o TextIssues(j.body, "body", "Email body is required", MaxBodyLen,
                  "Email body must be less than 10000 characters")

RECURSIVE JoinIssues(_)
JoinIssues(is) ==
    IF Len(is) = 0 THEN <<>>
    ELSE IF Len(is) = 1 THEN is[1]
    ELSE is[1] \o <<L(", ")>> \o JoinIssues(Tail(is))

---------------------------------------------------------------------------
(* State *)

VARIABLES
    impl,     \* which implementation serves the requests
    served,   \* requests taken so far
    pc,       \* where the handler of the current request stands
    json,     \* the body of the current request
    req,      \* the decoded request, NoReq before decoding
    resp,     \* the responses written for the current request
    logs,     \* the log events emitted for the current request
    dials,    \* connection attempts started for the current request
    conns,    \* the connections opened for the current request
    wire,     \* what the SMTP server saw on them
    plan,     \* the library calls of the running send function
    step,     \* the index in plan of the next call
    wst,      \* the SMTP operation: "none", "running", "returned", "sent"
    werr,     \* the error the send function returned
    errChan,  \* SendEmail's buffered channel (capacity 1)
    expired,  \* 30 seconds have passed since SendEmail began
    cutoff,   \* the SMTP operation was still unfinished when they had passed
    sendErr,  \* what SendEmail returned to the handler
    fail,     \* where and how the request failed, "" while it has not
    orphans   \* goroutines of earlier requests that are still running

vars ==
    <<impl, served, pc, json, req, resp, logs, dials, conns, wire, plan, step,
      wst, werr, errChan, expired, cutoff, sendErr, fail, orphans>>

hvars == <<impl, served, json, req, orphans>>
netvars == <<dials, conns, wire>>
wvars == <<plan, step, wst, werr, errChan>>

Impls == {"gonet", "gomail", "node"}

NoFail == [stage |-> "", kind |-> ""]

\* slog.Info / slog.Error / console.log: the message and the values logged.
Log(msg, fields) == [msg |-> msg, fields |-> fields]

ReqFields == <<F("to"), F("subject"), F("smtp_host"), F("smtp_port")>>

\* c.JSON(status, EmailResponse{...}) / reply.status(status).send(...)
Response(status, success, message) ==
    [status |-> status, success |-> success, message |-> message]

Init ==
    /\ impl \in Impls
    /\ served = 0
    /\ pc = "idle"
    /\ json = Garbage
    /\ req = NoReq
    /\ resp = <<>>
    /\ logs = <<>>
    /\ dials = 0
    /\ conns = <<>>
    /\ wire = <<>>
    /\ plan = <<>>
    /\ step = 1
    /\ wst = "none"
    /\ werr = [err |-> <<>>, kind |-> ""]
    /\ errChan = <<>>
    /\ expired = FALSE
    /\ cutoff = FALSE
    /\ sendErr = [err |-> <<>>, kind |-> ""]
    /\ fail = NoFail
    /\ orphans = 0

\* The router hands a POST /send-email to the handler.  Fastify parses the
\* body before the controller runs, so the controller never sees a body that
\* is not JSON.
Accept ==
    /\ pc = "idle"
    /\ served < MaxRequests
    /\ \E j \in Bodies :
          /\ impl = "node" => ~j.malformed
          /\ json' = j
    /\ served' = served + 1
    /\ pc' = IF impl = "node" THEN "parse" ELSE "bind"
    /\ UNCHANGED <<impl, req, resp, logs, orphans, expired, cutoff, sendErr, fail>>
    /\ UNCHANGED netvars
    /\ UNCHANGED wvars

---------------------------------------------------------------------------
(* The Go handler: internal/handlers/email.go *)

\* The port as the net/smtp code reads it: a decimal string.
PortStr(r) == IF impl = "gonet" THEN r.SMTPPort ELSE Itoa(r.SMTPPort)

Conn(use, tls, open) == [use |-> use, tls |-> tls, open |-> open]

\* What the server saw: on connection conn, opened for use, the event ev
\* with its arguments data, accepted or not, with the connection encrypted
\* or not at that moment.
Ev(conn, use, ev, data, ok, tls) ==
    [conn |-> conn, use |-> use, ev |-> ev, data |-> data, ok |-> ok,
     tls |-> tls]

\* A log call that also writes the password.
ValidatedFields_WithPassword ==
    <<F("to"), F("subject"), F("smtp_host"), F("smtp_port"), F("username"),
      F("password")>>

\* The request details the handler logs once the body is decoded.
ValidatedFields ==
    <<F("to"), F("subject"), F("smtp_host"), F("smtp_port"), F("username")>>

\* c.ShouldBindJSON(&emailReq), and the response to a body it refuses.
GoBind ==
    /\ pc = "bind"
    /\ LET d == IF impl = "gonet" THEN UnmarshalStringPort(json)
                ELSE UnmarshalJSON(json)
           received == Log("Email send request received", <<>>)
       IN IF IsErr(d.err)
          THEN /\ logs' = logs \o <<received,
                                    Log("Invalid JSON in email request", d.err)>>
               /\ resp' = Append(resp,
                     Response(400, FALSE, Wrap("Invalid JSON format: ", d.err)))
               /\ fail' = [stage |-> "decode", kind |-> "validation"]
               /\ pc' = "done"
               /\ req' = req
          ELSE /\ req' = d.req
               /\ logs' = logs \o <<received,
                                    Log("Email request validated", ValidatedFields)>>
               /\ pc' = "validate"
               /\ UNCHANGED <<resp, fail>>
    /\ UNCHANGED <<impl, served, json, orphans, expired, cutoff, sendErr>>
    /\ UNCHANGED netvars
    /\ UNCHANGED wvars

\* The validator the handler's service has.
GoValidator(r) ==
    IF impl = "gonet" THEN ValidateEmailRequestStr(r) ELSE ValidateEmailRequest(r)

\* A handler that forgets the return after the validation error.
AfterValidate_NoReturn(e) == "probe"

\* Where the handler goes after the validator's answer: it returns when
\* the request is refused.
AfterValidate(e) == IF IsErr(e) THEN "done" ELSE "probe"

\* h.emailService.ValidateEmailRequest(emailReq), and the response to a
\* request it refuses.
GoValidate ==
    /\ pc = "validate"
    /\ LET e == GoValidator(req)
       IN IF IsErr(e)
          THEN /\ logs' = Append(logs, Log("Email request validation failed",
                                           <<F("to"), F("subject")>> \o e))
               /\ resp' = Append(resp, Response(400, FALSE, e))
               /\ fail' = [stage |-> "validate", kind |-> "validation"]
               /\ pc' = AfterValidate(e)
          ELSE /\ pc' = AfterValidate(e)
               /\ UNCHANGED <<logs, resp, fail>>
    /\ UNCHANGED hvars
    /\ UNCHANGED <<expired, cutoff, sendErr>>
    /\ UNCHANGED netvars
    /\ UNCHANGED wvars

\* How a dial may end: tls.Dial makes the TCP connection and then the TLS
\* handshake; net.Dial makes the TCP connection only.
DialOutcomes(withTLS) == IF withTLS THEN {"ok", "tcp", "tls"} ELSE {"ok", "tcp"}

DialKind(o) == IF o = "tls" THEN "tls-failed" ELSE "connection-failed"

DialEvents(c, use, o, withTLS) ==
    IF o = "tcp" THEN <<>>
    ELSE <<Ev(c, use, "tcp", <<>>, TRUE, FALSE)>>
         \o (IF withTLS THEN <<Ev(c, use, "tls", <<>>, o = "ok", FALSE)>> ELSE <<>>)

\* TestSMTPConnection: the error it returns when the dial ends with o.
ProbeError(port, o) ==
    IF port \notin {Itoa(465), Itoa(587), Itoa(25)}
    THEN <<L("unsupported port: "), F("smtp_port")>>
    ELSE IF o = "ok" THEN NoErr
    ELSE <<L(IF port = Itoa(465) THEN "cannot connect to SMTPS server "
                                 ELSE "cannot connect to SMTP server "),
           F("smtp_host"), L(":"), F("smtp_port"), L(": "),
           X(IF o = "tls" THEN "tls: handshake failure" ELSE "dial tcp: i/o timeout")>>

\* A probe failure answered the way a failure of the send is.
ProbeFailed_AsSendFailure(e) ==
    Response(500, FALSE, Wrap("Failed to send email: ", e))

\* A probe failure answered with http.StatusInternalServerError.
ProbeFailed_500(e) == Response(500, FALSE, Wrap("SMTP connection failed: ", e))

\* The handler's response when the probe fails.
ProbeFailed(e) == Response(400, FALSE, Wrap("SMTP connection failed: ", e))

\* h.emailService.TestSMTPConnection(emailReq) with the handler's response
\* when it fails: the probe dials, and its deferred conn.Close() runs when
\* it returns.
GoProbe ==
    /\ pc = "probe"
    /\ LET port == PortStr(req)
           known == port \in {Itoa(465), Itoa(587), Itoa(25)}
           withTLS == port = Itoa(465)
           started == Log("SMTP connection test started",
                          <<F("smtp_host"), F("smtp_port"), F("smtp_host"),
                            F("smtp_port")>>)
       IN \E o \in DialOutcomes(withTLS) :
            LET e == ProbeError(port, o)
                c == Len(conns) + 1
            IN /\ dials' = IF known THEN dials + 1 ELSE dials
               /\ conns' = IF known /\ o = "ok"
                           THEN Append(conns, Conn("probe", withTLS, FALSE))
                           ELSE conns
               /\ wire' = IF known THEN wire \o DialEvents(c, "probe", o, withTLS)
                          ELSE wire
               /\ IF IsErr(e)
                  THEN /\ logs' = logs \o
                            <<started,
                              Log(IF ~known THEN "Unsupported SMTP port"
                                  ELSE IF withTLS THEN "SMTPS connection test failed"
                                  ELSE "SMTP connection test failed",
                                  IF known THEN <<F("smtp_host"), F("smtp_port")>> \o e
                                  ELSE <<F("smtp_port")>>),
                              Log("SMTP connection test failed in handler",
                                  <<F("to"), F("subject"), F("smtp_host")>> \o e)>>
                       /\ resp' = Append(resp, ProbeFailed(e))
                       /\ fail' = [stage |-> "probe",
                                   kind |-> IF known THEN DialKind(o)
                                            ELSE "unsupported-port"]
                       /\ pc' = "done"
                  ELSE /\ logs' = logs \o
                            <<started,
                              Log(IF withTLS THEN "SMTPS connection test successful"
                                  ELSE "SMTP connection test successful",
                                  <<F("smtp_host")>>),
                              Log("SMTP connection test completed",
                                  <<F("smtp_host"), F("smtp_port")>>)>>
                       /\ pc' = "send"
                       /\ UNCHANGED <<resp, fail>>
    /\ UNCHANGED hvars
    /\ UNCHANGED <<expired, cutoff, sendErr>>
    /\ UNCHANGED wvars

---------------------------------------------------------------------------
(* The SMTP conversation *)

\* What a send function returns: its error and the failure kind of the
\* step that failed.
R(err, kind) == [err |-> err, kind |-> kind]
Ok == R(NoErr, "")

\* One library call of a send function: the call, the prefix the function
\* puts before the call's error, and what a connection it opens is for.
St(op, pre, use) == [op |-> op, pre |-> pre, use |-> use]

\* An envelope that names the recipient before the sender.
Envelope_RcptFirst ==
    <<St("rcpt", "failed to set recipient: ", ""),
      St("mail", "failed to set sender: ", ""),
      St("data", "failed to get data writer: ", ""),
      St("write", "failed to write message: ", ""),
      St("enddata", "failed to close data writer: ", "")>>

\* Mail, Rcpt, Data, Write and Close of the data writer.
Envelope ==
    <<St("mail", "failed to set sender: ", ""),
      St("rcpt", "failed to set recipient: ", ""),
      St("data", "failed to get data writer: ", ""),
      St("write", "failed to write message: ", ""),
      St("enddata", "failed to close data writer: ", "")>>

\* A send function that connects and sends a second time.
sendEmailSMTPS_Again ==
    LET once == <<St("dial_tls", "failed to connect to SMTPS server: ", "relay"),
                  St("greet", "failed to create SMTP client: ", ""),
                  St("auth", "authentication failed: ", "")>> \o Envelope
    IN once \o once

\* sendEmailSMTPS: tls.Dial, smtp.NewClient, Auth, Mail, Rcpt, Data, Write,
\* Close.
sendEmailSMTPS ==
    <<St("dial_tls", "failed to connect to SMTPS server: ", "relay"),
      St("greet", "failed to create SMTP client: ", ""),
      St("auth", "authentication failed: ", "")>> \o Envelope

\* sendEmailSTARTTLS: net.DialTimeout, smtp.NewClient, StartTLS, Auth, Mail,
\* Rcpt, Data, Write, Close.
sendEmailSTARTTLS ==
    <<St("dial_tcp", "failed to connect to SMTP server: ", "relay"),
      St("greet", "failed to create SMTP client: ", ""),
      St("starttls", "failed to start TLS: ", ""),
      St("auth", "authentication failed: ", "")>> \o Envelope

Bare(steps) == [i \in 1..Len(steps) |-> St(steps[i].op, "", steps[i].use)]

\* sendEmailPlain is one call of net/smtp's SendMail, which dials, greets,
\* "switches to TLS if possible" (when the server offers STARTTLS),
\* authenticates, sends the envelope and the data and quits, and returns
\* the first error as it is.
sendEmailPlain ==
    <<St("dial_tcp", "", "relay"), St("greet", "", ""),
      St("starttls_if_offered", "", ""), St("auth", "", "")>>
    \o Bare(Envelope) \o <<St("quit", "", "")>>

\* client.DialAndSend of go-mail: the client is made with the port, PLAIN
\* authentication and the credentials only, so the library's default
\* transport policy applies to every port: a plain TCP connection that must
\* be upgraded with STARTTLS.
DialAndSend ==
    <<St("dial_tcp", "", "relay"), St("greet", "", ""),
      St("starttls", "", ""), St("auth", "", "")>>
    \o Bare(Envelope) \o <<St("quit", "", "")>>

\* nodemailer's transporter: secure (TLS from the first byte) when the port
\* is 465, otherwise a plain connection that is upgraded when the server
\* offers STARTTLS.
Connect(secure, use) ==
    IF secure
    THEN <<St("dial_tls", "", use), St("greet", "", "")>>
    ELSE <<St("dial_tcp", "", use), St("greet", "", ""),
           St("starttls_if_offered", "", "")>>

\* transporter.verify() and then transporter.sendMail(mailOptions).
createTransporter(port) ==
    Connect(port = 465, "verify")
    \o <<St("auth_any", "", ""), St("verified", "", "")>>
    \o Connect(port = 465, "relay")
    \o <<St("auth_any", "", "")>> \o Bare(Envelope) \o <<St("hangup", "", "")>>

\* smtp.PlainAuth sends the credentials only over TLS or to localhost.
IsLocalhost(h) == h = <<"1", "2", "7", ".", "0", ".", "0", ".", "1">>

StepOutcomes(op, tlsNow, host) ==
    CASE op = "dial_tls" -> {"ok", "tcp", "tls"}
      [] op = "dial_tcp" -> {"ok", "tcp"}
      [] op = "starttls_if_offered" -> {"ok", "skip", "fail"}
      [] op = "auth" -> IF tlsNow \/ IsLocalhost(host) THEN {"ok", "fail"}
                        ELSE {"refused"}
      [] op \in {"verified", "hangup"} -> {"ok"}
      [] OTHER -> {"ok", "fail"}

StepKind(op, o) ==
    CASE op \in {"dial_tls", "dial_tcp"} -> DialKind(o)
      [] op = "greet" -> "greeting-failed"
      [] op \in {"starttls", "starttls_if_offered"} -> "tls-failed"
      [] op \in {"auth", "auth_any"} -> "auth-failed"
      [] OTHER -> "protocol-failed"

StepText(op, o) ==
    CASE op \in {"dial_tls", "dial_tcp"} ->
             IF o = "tls" THEN "tls: handshake failure" ELSE "dial tcp: i/o timeout"
      [] op = "greet" -> "unexpected greeting"
      [] op \in {"starttls", "starttls_if_offered"} -> "starttls failed"
      [] op \in {"auth", "auth_any"} ->
             IF o = "refused" THEN "unencrypted connection"
             ELSE "535 credentials not accepted"
      [] OTHER -> "server reply"

\* The command the server sees for a call, "" when the call sends none.
StepEvent(op, o) ==
    CASE op \in {"starttls", "starttls_if_offered"} ->
             IF o = "skip" THEN "" ELSE "STARTTLS"
      [] op \in {"auth", "auth_any"} -> IF o = "refused" THEN "" ELSE "AUTH"
      [] op = "mail" -> "MAIL"
      [] op = "rcpt" -> "RCPT"
      [] op = "data" -> "DATA"
      [] op = "write" -> "BODY"
      [] op = "enddata" -> "ENDDATA"
      [] op \in {"quit", "hangup", "verified"} -> "QUIT"
      [] OTHER -> ""

\* The message handed to the server.  The net/smtp variant formats it
\* itself; go-mail and nodemailer build it from the fields they are given
\* and add headers of their own.
Message ==
    CASE impl = "gonet" ->
             <<L("To: "), F("to"), L("\r\nSubject: "), F("subject"),
               L("\r\n\r\n"), F("body")>>
      [] impl = "gomail" ->
             <<X("headers of go-mail"), L("From: "), F("username"),
               L("To: "), F("to"), L("Subject: "), F("subject"),
               L("text/plain"), F("body")>>
      [] OTHER ->
             <<X("headers of nodemailer"), L("X-Mailer: rest-to-smtp/1.0"),
               L("X-Priority: 3"), L("From: "), F("username"),
               L("To: "), F("to"), L("Subject: "), F("subject"), F("body")>>

\* The arguments of the command a call sends.
StepData(op) ==
    CASE op \in {"auth", "auth_any"} -> <<L("PLAIN"), F("username"), F("password")>>
      [] op = "mail" -> <<F("username")>>
      [] op = "rcpt" -> <<F("to")>>
      [] op = "write" -> Message
      [] OTHER -> <<>>

\* The server (or the network) let the call through.
Accepted(o) == o \in {"ok", "skip"}

\* A send function that drops the error of writer.Close().
Failed_IgnoresClose(op, o) == ~Accepted(o) /\ op # "enddata"

\* The test `if err != nil` the send function makes after the call.
Failed(op, o) == ~Accepted(o)

\* The two net/smtp functions that defer client.Quit().
DefersQuit == impl = "gonet" /\ PortStr(req) \in {Itoa(465), Itoa(587)}

\* A return path without the close.
Closed_Leaks(cs) == cs

\* The current connection closed: deferred conn.Close(), c.Close(), or the
\* library's own close.
Closed(cs) ==
    IF Len(cs) = 0 THEN cs
    ELSE [cs EXCEPT ![Len(cs)] = Conn(cs[Len(cs)].use, cs[Len(cs)].tls, FALSE)]

\* One library call of the running send function, with every way the
\* network and the server may answer it.  A failing call, and the last
\* call, end the function: its deferred calls run and the connection is
\* closed.
RelayStep ==
    /\ wst = "running"
    /\ step <= Len(plan)
    /\ LET s == plan[step]
           dial == s.op \in {"dial_tls", "dial_tcp"}
           withTLS == s.op = "dial_tls"
           c == IF dial THEN Len(conns) + 1 ELSE Len(conns)
           tlsNow == IF dial THEN FALSE ELSE conns[c].tls
       IN \E o \in StepOutcomes(s.op, tlsNow, req.SMTPHost) :
            LET good == ~Failed(s.op, o)
                last == step = Len(plan)
                returns == ~good \/ last
                cs1 == IF dial
                       THEN (IF o = "ok"
                             THEN Append(conns, Conn(s.use, withTLS, TRUE))
                             ELSE conns)
                       ELSE IF s.op \in {"starttls", "starttls_if_offered"} /\ o = "ok"
                       THEN [conns EXCEPT ![c] = Conn(conns[c].use, TRUE, TRUE)]
                       ELSE conns
                use == IF dial THEN s.use ELSE conns[c].use
                evs == IF dial THEN DialEvents(c, use, o, withTLS)
                       ELSE IF StepEvent(s.op, o) = "" THEN <<>>
                       ELSE <<Ev(c, use, StepEvent(s.op, o), StepData(s.op),
                                 Accepted(o), tlsNow)>>
                greeted == step > 2 \/ (step = 2 /\ Accepted(o))
                bye == IF returns /\ DefersQuit /\ greeted /\ Len(cs1) >= c
                       THEN <<Ev(c, use, "QUIT", <<>>, TRUE, cs1[c].tls)>>
                       ELSE <<>>
            IN /\ dials' = IF dial THEN dials + 1 ELSE dials
               /\ conns' = IF returns \/ s.op \in {"verified", "hangup"}
                           THEN (IF dial /\ o # "ok" THEN cs1 ELSE Closed(cs1))
                           ELSE cs1
               /\ wire' = wire \o evs \o bye
               /\ logs' = IF s.op = "verified"
                          THEN logs \o <<Log("SMTP connection verified", <<>>),
                                         Log("Sending email...", <<>>)>>
                          ELSE logs
               /\ IF ~good
                  THEN /\ werr' = R(WrapPre(s.pre, <<X(StepText(s.op, o))>>),
                                    StepKind(s.op, o))
                       /\ wst' = "returned"
                       /\ step' = step
                  ELSE IF last
                  THEN /\ werr' = Ok
                       /\ wst' = "returned"
                       /\ step' = step
                  ELSE /\ step' = step + 1
                       /\ UNCHANGED <<werr, wst>>
    /\ UNCHANGED hvars
    /\ UNCHANGED <<pc, resp, plan, errChan, expired, cutoff, sendErr, fail>>

---------------------------------------------------------------------------
(* SendEmail of the net/smtp variant: a worker goroutine and a deadline *)

TimeoutErr == R(<<L("SMTP connection timeout after 30 seconds")>>, "timeout")

\* The send function the worker's switch on the port chooses.
PortSwitch(port) ==
    CASE port = Itoa(465) -> sendEmailSMTPS
      [] port = Itoa(587) -> sendEmailSTARTTLS
      [] port = Itoa(25) -> sendEmailPlain
      [] OTHER -> <<>>

\* SendEmail up to its select: the attempt is logged, the 30 s context and
\* the channel of capacity 1 are made, and the worker goroutine is started;
\* its switch on req.SMTPPort chooses the send function, or fails on a port
\* it does not know.
NetSendEmail ==
    /\ pc = "send"
    /\ impl = "gonet"
    /\ errChan' = <<>>
    /\ pc' = "select"
    /\ LET port == PortStr(req)
           attempt == Log("Email send attempt started",
                          ReqFields \o <<F("username")>>)
       IN IF PortSwitch(port) = <<>>
          THEN /\ werr' = R(<<L("unsupported port: "), F("smtp_port")>>,
                            "unsupported-port")
               /\ wst' = "returned"
               /\ logs' = Append(logs, attempt)
               /\ UNCHANGED <<plan, step>>
          ELSE /\ plan' = PortSwitch(port)
               /\ step' = 1
               /\ wst' = "running"
               /\ logs' = logs \o
                     <<attempt,
                       Log(CASE port = Itoa(465) -> "Using SMTPS connection (port 465)"
                             [] port = Itoa(587) -> "Using STARTTLS connection (port 587)"
                             [] OTHER -> "Using plain SMTP connection (port 25)",
                           <<F("smtp_host")>>)>>
               /\ werr' = werr
    /\ UNCHANGED hvars
    /\ UNCHANGED <<resp, expired, cutoff, sendErr, fail>>
    /\ UNCHANGED netvars

\* The select statement's case err := <-errChan.
RecvLog(r) ==
    IF IsErr(r.err) THEN Log("Email send failed", ReqFields \o r.err)
    ELSE Log("Email sent successfully", ReqFields)

\* The select statement's case <-ctx.Done().
TimeoutLog == Log("Email send timeout", ReqFields)

\* A channel without a buffer: a send finds no room in it.
RoomIn_Unbuffered(ch) == FALSE

\* errChan := make(chan error, 1): a send finds room while the channel holds
\* no value.
RoomIn(ch) == Len(ch) < 1

\* errChan <- err, the worker's last statement.  It proceeds when a
\* SendEmail waits in its select, which receives the value at once, or when
\* the channel has room.
WorkerSend ==
    /\ impl = "gonet"
    /\ wst = "returned"
    /\ pc = "blocked" \/ RoomIn(errChan)
    /\ wst' = "sent"
    /\ IF pc = "blocked"
       THEN /\ sendErr' = werr
            /\ logs' = Append(logs, RecvLog(werr))
            /\ pc' = "reply"
            /\ errChan' = errChan
       ELSE /\ errChan' = Append(errChan, werr)
            /\ UNCHANGED <<sendErr, logs, pc>>
    /\ UNCHANGED hvars
    /\ UNCHANGED <<resp, plan, step, werr, expired, cutoff, fail>>
    /\ UNCHANGED netvars

\* The cases of the select that can proceed.
Ready == (IF errChan # <<>> THEN {"recv"} ELSE {}) \cup (IF expired THEN {"done"} ELSE {})

\* SendEmail reaches its select: it takes one of the cases that can proceed,
\* and waits when none can.
NetSelect ==
    /\ pc = "select"
    /\ IF Ready = {}
       THEN /\ pc' = "blocked"
            /\ UNCHANGED <<sendErr, logs, errChan>>
       ELSE \E c \in Ready :
              /\ pc' = "reply"
              /\ IF c = "recv"
                 THEN /\ sendErr' = Head(errChan)
                      /\ errChan' = Tail(errChan)
                      /\ logs' = Append(logs, RecvLog(Head(errChan)))
                 ELSE /\ sendErr' = TimeoutErr
                      /\ errChan' = errChan
                      /\ logs' = Append(logs, TimeoutLog)
    /\ UNCHANGED hvars
    /\ UNCHANGED <<resp, plan, step, wst, werr, expired, cutoff, fail>>
    /\ UNCHANGED netvars

\* The call in progress is a dial with a timeout of its own, which returns
\* before the 30 s have passed: net.DialTimeout("tcp", addr, 10*time.Second)
\* of sendEmailSTARTTLS, and the dial of go-mail's client, made with the
\* library's default connection timeout.
DialPending10s ==
    /\ wst = "running"
    /\ step = 1
    /\ \/ impl = "gonet" /\ plan = sendEmailSTARTTLS
       \/ impl = "gomail"

\* Thirty seconds have passed since SendEmail began.  In the net/smtp
\* variant this is the context's deadline: a SendEmail that waits in its
\* select returns the timeout error.  The other variants set no deadline.
DeadlineExpires ==
    /\ pc \in {"select", "blocked", "dialandsend", "await"}
    /\ ~expired
    /\ ~DialPending10s
    /\ expired' = TRUE
    /\ cutoff' = (wst \notin {"returned", "sent"})
    /\ IF pc = "blocked"
       THEN /\ sendErr' = TimeoutErr
            /\ logs' = Append(logs, TimeoutLog)
            /\ pc' = "reply"
       ELSE UNCHANGED <<sendErr, logs, pc>>
    /\ UNCHANGED hvars
    /\ UNCHANGED <<resp, fail>>
    /\ UNCHANGED wvars
    /\ UNCHANGED netvars

---------------------------------------------------------------------------
(* SendEmail of the go-mail variant *)

\* message.From / message.To parse the address (net/mail): a local part,
\* an "@" and a domain.
ParseAddress(a) ==
    \E i \in 2..(Len(a) - 1) :
        a[i] = "@" /\ \A k \in 1..Len(a) : k # i => a[k] # "@"

\* SendEmail up to client.DialAndSend(message).  mail.NewClient fails when
\* WithPort is given a port that is no TCP port (below 1 or above 65535).
MailSendEmail ==
    /\ pc = "send"
    /\ impl = "gomail"
    /\ LET attempt == Log("Email send attempt started",
                          ReqFields \o <<F("username")>>)
       IN IF ~ParseAddress(req.Username)
          THEN /\ sendErr' = R(<<L("failed to set From address: "),
                                 X("mail: invalid address")>>, "address")
               /\ logs' = Append(logs, attempt)
               /\ pc' = "reply"
               /\ UNCHANGED <<plan, step, wst>>
          ELSE IF ~ParseAddress(req.To)
          THEN /\ sendErr' = R(<<L("failed to set To address: "),
                                 X("mail: invalid address")>>, "address")
               /\ logs' = Append(logs, attempt)
               /\ pc' = "reply"
               /\ UNCHANGED <<plan, step, wst>>
          ELSE IF req.SMTPPort < MinPort \/ req.SMTPPort > MaxPort
          THEN /\ sendErr' = R(<<L("failed to create mail client: "),
                                 X("invalid port")>>, "unsupported-port")
               /\ logs' = Append(logs, attempt)
               /\ pc' = "reply"
               /\ UNCHANGED <<plan, step, wst>>
          ELSE /\ plan' = DialAndSend
               /\ step' = 1
               /\ wst' = "running"
               /\ logs' = logs \o <<attempt,
                                    Log("Sending email", <<F("to"), F("subject")>>)>>
               /\ pc' = "dialandsend"
               /\ sendErr' = sendErr
    /\ UNCHANGED hvars
    /\ UNCHANGED <<resp, werr, errChan, expired, cutoff, fail>>
    /\ UNCHANGED netvars

\* client.DialAndSend has returned: SendEmail logs the outcome and returns.
MailSendReturn ==
    /\ pc = "dialandsend"
    /\ wst = "returned"
    /\ IF IsErr(werr.err)
       THEN /\ logs' = Append(logs, Log("Email send failed", ReqFields \o werr.err))
            /\ sendErr' = R(Wrap("failed to send mail: ", werr.err), werr.kind)
       ELSE /\ logs' = Append(logs, Log("Email sent successfully", ReqFields))
            /\ sendErr' = Ok
    /\ pc' = "reply"
    /\ UNCHANGED hvars
    /\ UNCHANGED <<resp, expired, cutoff, fail>>
    /\ UNCHANGED wvars
    /\ UNCHANGED netvars

\* A handler that forgets the return after the 500.
SendReplies_FallThrough(e) ==
    IF IsErr(e)
    THEN <<Response(500, FALSE, Wrap("Failed to send email: ", e)),
           Response(200, TRUE, <<L("Email sent successfully")>>)>>
    ELSE <<Response(200, TRUE, <<L("Email sent successfully")>>)>>

\* What the handler writes for SendEmail's result: the failure and return,
\* or the success.
SendReplies(e) ==
    IF IsErr(e)
    THEN <<Response(500, FALSE, Wrap("Failed to send email: ", e))>>
    ELSE <<Response(200, TRUE, <<L("Email sent successfully")>>)>>

\* The handler after h.emailService.SendEmail(emailReq) has returned.
GoReply ==
    /\ pc = "reply"
    /\ impl # "node"
    /\ IF IsErr(sendErr.err)
       THEN /\ logs' = Append(logs, Log("Email sending failed in handler",
                           <<F("to"), F("subject"), F("smtp_host")>> \o sendErr.err))
            /\ resp' = resp \o SendReplies(sendErr.err)
            /\ fail' = [stage |-> "send", kind |-> sendErr.kind]
       ELSE /\ logs' = Append(logs, Log("Email request completed successfully",
                           <<F("to"), F("subject"), F("smtp_host")>>))
            /\ resp' = resp \o SendReplies(sendErr.err)
            /\ fail' = fail
    /\ pc' = "done"
    /\ UNCHANGED hvars
    /\ UNCHANGED <<expired, cutoff, sendErr>>
    /\ UNCHANGED wvars
    /\ UNCHANGED netvars

---------------------------------------------------------------------------
(* The TypeScript controller and service *)

\* EmailController.sendEmail up to the call of the service: the schema is
\* applied to the body, and a body it refuses is answered with 400.  (The
\* controller's catch block answers an exception; safeParse and the
\* service, which catches its own errors, throw none.)
NodeParse ==
    /\ pc = "parse"
    /\ LET issues == SchemaIssues(json)
           received == Log("Email send request received", <<>>)
       IN IF issues # <<>>
          THEN /\ logs' = logs \o <<received,
                                    Log("Validation failed", JoinIssues(issues))>>
               /\ resp' = Append(resp,
                     Response(400, FALSE,
                              Wrap("Validation failed: ", JoinIssues(issues))))
               /\ fail' = [stage |-> "validate", kind |-> "validation"]
               /\ pc' = "done"
               /\ req' = req
          ELSE /\ req' = MkReq(json, json.smtp_port.whole)
               /\ logs' = logs \o <<received,
                                    Log("Email request validated",
                                        <<F("to"), F("subject"), F("smtp_host"),
                                          F("smtp_port"), F("username")>>)>>
               /\ pc' = "send"
               /\ UNCHANGED <<resp, fail>>
    /\ UNCHANGED <<impl, served, json, orphans, expired, cutoff, sendErr>>
    /\ UNCHANGED netvars
    /\ UNCHANGED wvars

\* EmailService.sendEmail up to transporter.verify().
NodeSendEmail ==
    /\ pc = "send"
    /\ impl = "node"
    /\ plan' = createTransporter(req.SMTPPort)
    /\ step' = 1
    /\ wst' = "running"
    /\ logs' = logs \o <<Log("Email send attempt",
                             <<F("to"), F("subject"), F("smtp_host"),
                               F("smtp_port"), F("username")>>),
                         Log("Testing SMTP connection...", <<>>)>>
    /\ pc' = "await"
    /\ UNCHANGED hvars
    /\ UNCHANGED <<resp, werr, errChan, expired, cutoff, sendErr, fail>>
    /\ UNCHANGED netvars

\* EmailService.sendEmail after verify() and sendMail(): the result object
\* it returns, from its try or from its catch.
NodeSendReturn ==
    /\ pc = "await"
    /\ wst = "returned"
    /\ IF IsErr(werr.err)
       THEN /\ logs' = Append(logs, Log("Email send failed",
                                        <<F("to"), F("subject")>> \o werr.err))
            /\ sendErr' = R(Wrap("Failed to send email: ", werr.err), werr.kind)
       ELSE /\ logs' = Append(logs, Log("Email sent successfully",
                                        <<F("to"), F("subject"), X("messageId")>>))
            /\ sendErr' = Ok
    /\ pc' = "reply"
    /\ UNCHANGED hvars
    /\ UNCHANGED <<resp, expired, cutoff, fail>>
    /\ UNCHANGED wvars
    /\ UNCHANGED netvars

\* EmailController.sendEmail after the service has returned its result.
NodeReply ==
    /\ pc = "reply"
    /\ impl = "node"
    /\ IF IsErr(sendErr.err)
       THEN /\ logs' = Append(logs, Log("Email request failed",
                                        <<F("to"), F("subject")>> \o sendErr.err))
            /\ resp' = Append(resp, Response(500, FALSE, sendErr.err))
            /\ fail' = [stage |-> "send", kind |-> sendErr.kind]
       ELSE /\ logs' = Append(logs, Log("Email request completed successfully",
                                        <<F("to"), F("subject")>>))
            /\ resp' = Append(resp,
                  Response(200, TRUE, <<L("Email sent successfully")>>))
            /\ fail' = fail
    /\ pc' = "done"
    /\ UNCHANGED hvars
    /\ UNCHANGED <<expired, cutoff, sendErr>>
    /\ UNCHANGED wvars
    /\ UNCHANGED netvars

---------------------------------------------------------------------------
(* Between requests *)

\* The worker goroutine of the request has not ended.
WorkerAlive == wst \in {"running", "returned"} /\ impl = "gonet"

\* The handler returns.  Nothing of the request is kept; a worker that has
\* not ended goes on by itself.
Finish ==
    /\ pc = "done"
    /\ pc' = "idle"
    /\ orphans' = IF WorkerAlive THEN orphans + 1 ELSE orphans
    /\ json' = Garbage
    /\ req' = NoReq
    /\ resp' = <<>>
    /\ logs' = <<>>
    /\ dials' = 0
    /\ conns' = <<>>
    /\ wire' = <<>>
    /\ plan' = <<>>
    /\ step' = 1
    /\ wst' = "none"
    /\ werr' = Ok
    /\ errChan' = <<>>
    /\ expired' = FALSE
    /\ cutoff' = FALSE
    /\ sendErr' = Ok
    /\ fail' = NoFail
    /\ UNCHANGED <<impl, served>>

\* The SMTP operation of a worker left behind returns at last, and the
\* worker ends.
OrphanExit ==
    /\ orphans > 0
    /\ orphans' = orphans - 1
    /\ UNCHANGED <<impl, served, pc, json, req, resp, logs, dials, conns, wire,
                   plan, step, wst, werr, errChan, expired, cutoff, sendErr, fail>>

Next ==
    \/ Accept
    \/ GoBind
    \/ GoValidate
    \/ GoProbe
    \/ NetSendEmail
    \/ RelayStep
    \/ WorkerSend
    \/ NetSelect
    \/ DeadlineExpires
    \/ MailSendEmail
    \/ MailSendReturn
    \/ GoReply
    \/ NodeParse
    \/ NodeSendEmail
    \/ NodeSendReturn
    \/ NodeReply
    \/ Finish
    \/ OrphanExit

Spec == Init /\ [][Next]_vars

---------------------------------------------------------------------------
(* The Go service called without the handler's validation *)

\* The requests handed to the service directly: any port, the other fields
\* filled in.
DirectBodies ==
    {j \in WellFormed :
        /\ j.smtp_host = JS(<<"h", ".", "c", "z">>)
        /\ j.username = JS(<<"u", "@", "d", ".", "c", "z">>)
        /\ j.password = JS(<<"p">>)
        /\ j.to = JS(<<"t", "@", "d", ".", "c", "z">>)
        /\ j.subject = JS(<<"s">>)
        /\ j.body = JS(<<"b">>)}

\* TestSMTPConnection or SendEmail is called with a decoded request that no
\* validator has seen.
Direct ==
    /\ pc = "idle"
    /\ served < MaxRequests
    /\ \E j \in DirectBodies, entry \in {"probe", "send"} :
          LET d == IF impl = "gonet" THEN UnmarshalStringPort(j)
                   ELSE UnmarshalJSON(j)
          IN /\ ~IsErr(d.err)
             /\ json' = j
             /\ req' = d.req
             /\ pc' = entry
    /\ served' = served + 1
    /\ UNCHANGED <<impl, resp, logs, orphans, expired, cutoff, sendErr, fail>>
    /\ UNCHANGED netvars
    /\ UNCHANGED wvars

InitDirect == Init /\ impl \in {"gonet", "gomail"}

NextDirect ==
    \/ Direct
    \/ GoProbe
    \/ NetSendEmail
    \/ RelayStep
    \/ WorkerSend
    \/ NetSelect
    \/ DeadlineExpires
    \/ MailSendEmail
    \/ MailSendReturn
    \/ GoReply
    \/ Finish
    \/ OrphanExit

SpecDirect == InitDirect /\ [][NextDirect]_vars

---------------------------------------------------------------------------
(* Properties *)

\* The handler has written exactly one response, of the given status.
Replied(status) ==
    Len(resp) = 1 /\ resp[1].status = status /\ resp[1].success = (status = 200)

\* The validator of the serving implementation refuses the request in hand.
ValidationFails ==
    IF impl = "node" THEN pc # "idle" /\ SchemaIssues(json) # <<>>
    ELSE req # NoReq /\ IsErr(GoValidator(req))

\* C1: a request that the validator refuses never starts a network
\* operation: neither the probe nor the send is invoked, no connection is
\* attempted or opened, nothing reaches a server, and the handler answers
\* 400 with success=false.
C1_ValidationErrorTouchesNoNetwork ==
    ValidationFails =>
        /\ dials = 0
        /\ conns = <<>>
        /\ wire = <<>>
        /\ wst = "none"
        /\ pc \in {"parse", "validate", "done"}
        /\ pc = "done" => Replied(400)

\* A refused request has been answered.
C1_Refused ==
    /\ ValidationFails
    /\ pc = "done"
    /\ fail.stage = "validate"
    /\ Replied(400)
    /\ dials = 0

\* The JSON port is one of 25, 587, 465, as a number or as a decimal string.
PortInSet(j) ==
    \/ j.t = "num" /\ j.frac = 0 /\ j.whole \in SupportedPorts
    \/ j.t = "str" /\ AllDigits(j.s) /\ DigitsVal(j.s) \in SupportedPorts

\* Every field but the port passes the three validators.
OtherFieldsValid(j) ==
    /\ ~j.malformed
    /\ SchemaIssues([j EXCEPT !.smtp_port = JN(587, 0)]) = <<>>
    /\ ValidateEmailRequest(MkReq(j, 587)) = NoErr
    /\ ValidateEmailRequestStr(MkReq(j, Itoa(587))) = NoErr

\* C2: a request whose smtp_port is not one of 25, 587, 465, all its other
\* fields being valid, is rejected before the relay: neither the pre-flight
\* probe nor the send is reached (the rejection names the supported set).
\* The formula states the part that the relay is never reached and that
\* the request is answered 400.
C2_PortOutsideSetNeverRelayed ==
    (pc # "idle" /\ OtherFieldsValid(json) /\ ~PortInSet(json.smtp_port)) =>
        /\ dials = 0
        /\ wst = "none"
        /\ pc \in {"bind", "parse", "validate", "done"}
        /\ pc = "done" => Replied(400)

SmtpCommands ==
    {"STARTTLS", "AUTH", "MAIL", "RCPT", "DATA", "BODY", "ENDDATA", "QUIT"}

\* What the server saw on the connections of the relay (the send itself).
OnRelay(i) == wire[i].use = "relay"

\* Implicit TLS: the handshake comes first, so every command is encrypted
\* and STARTTLS is never issued.
ImplicitTLS ==
    \A i \in 1..Len(wire) :
        OnRelay(i) =>
            /\ wire[i].ev # "STARTTLS"
            /\ wire[i].ev \in SmtpCommands => wire[i].tls

\* Explicit TLS: a plain TCP connection on which STARTTLS is issued before
\* any other command.
ExplicitTLS ==
    \A i \in 1..Len(wire) :
        OnRelay(i) =>
            /\ wire[i].ev # "tls"
            /\ wire[i].ev \in SmtpCommands \ {"STARTTLS", "QUIT"} =>
                  \E k \in 1..(i - 1) :
                      /\ OnRelay(k)
                      /\ wire[k].conn = wire[i].conn
                      /\ wire[k].ev = "STARTTLS"

\* Cleartext: no handshake, no upgrade by STARTTLS, nothing encrypted.
Cleartext ==
    \A i \in 1..Len(wire) :
        OnRelay(i) =>
            /\ wire[i].ev # "tls"
            /\ wire[i].ev = "STARTTLS" => ~wire[i].ok
            /\ ~wire[i].tls

\* C3: the transport security of the relay is a function of the port alone:
\* 465 does the TLS handshake before any SMTP command, 587 opens a plain
\* connection and issues STARTTLS, 25 never establishes TLS.
C3_TransportModeByPort ==
    req # NoReq =>
        /\ PortStr(req) = Itoa(465) => ImplicitTLS
        /\ PortStr(req) = Itoa(587) => ExplicitTLS
        /\ PortStr(req) = Itoa(25) => Cleartext

\* C4: when the 30 seconds have passed and the relay attempt has not
\* completed, SendEmail returns the timeout failure: it is never found
\* still waiting for the SMTP operation after the deadline.
C4_NeverWaitsPastDeadline ==
    (impl # "node" /\ expired /\ cutoff) => pc \notin {"blocked", "dialandsend"}

\* C5: when the attempt is reported as a timeout, the connection is closed
\* by the time SendEmail returns, and nothing started for the request still
\* runs once the handler has written its response.
C5_TimeoutLeavesNothingBehind ==
    (sendErr.kind = "timeout" /\ pc \in {"reply", "done"}) =>
        /\ \A c \in 1..Len(conns) : ~conns[c].open
        /\ pc = "done" => ~WorkerAlive

\* C6: on every path through the handler the request gets exactly one
\* response, and the response carries one success value, true or false:
\* never two responses, and never a return without one.
C6_ExactlyOneResponse ==
    /\ Len(resp) <= 1
    /\ pc = "done" <=> Len(resp) = 1
    /\ \A i \in 1..Len(resp) :
          /\ resp[i].success \in BOOLEAN
          /\ resp[i].status \in {200, 400, 500}
          /\ resp[i].success <=> resp[i].status = 200

\* The handler has answered a send that ran into the deadline.
C6_TimeoutAnswered ==
    pc = "done" /\ sendErr.kind = "timeout" /\ Replied(500)

\* The server accepted the end of the message data on a relay connection.
DataAccepted ==
    \E i \in 1..Len(wire) :
        OnRelay(i) /\ wire[i].ev = "ENDDATA" /\ wire[i].ok

\* C7: success (200, success=true) is reported only for a message whose
\* terminating sequence the server accepted; a failure of any step up to
\* and including the close of the data writer makes the outcome a failure.
C7_SuccessOnlyIfAccepted ==
    /\ (\E i \in 1..Len(resp) : resp[i].success \/ resp[i].status = 200)
          => DataAccepted
    /\ (pc = "reply" /\ ~IsErr(sendErr.err)) => DataAccepted

\* A success has been reported.
C7_SuccessReported ==
    pc = "done" /\ Replied(200) /\ DataAccepted

\* C8 as the specification has it: the status follows from the failure
\* kind: validation, connection-failed, tls-failed and unsupported-port
\* yield 400; auth-failed, protocol-failed and timeout yield 500.
C8_StatusByKind ==
    (pc = "done" /\ fail # NoFail) =>
        /\ fail.kind \in {"validation", "connection-failed", "tls-failed",
                          "unsupported-port"} => Replied(400)
        /\ fail.kind \in {"auth-failed", "protocol-failed", "timeout"}
              => Replied(500)

\* C8, amended: validation failures and an unsupported port yield 400;
\* auth-failed, protocol-failed and timeout yield 500; a connection or TLS
\* failure yields 400 when the pre-flight probe meets it and 500 when the
\* send meets it.  An authentication failure never yields 400.
C8_StatusByKindAndStage ==
    (pc = "done" /\ fail # NoFail) =>
        /\ fail.kind \in {"validation", "unsupported-port"} => Replied(400)
        /\ fail.kind \in {"auth-failed", "protocol-failed", "timeout"}
              => Replied(500)
        /\ fail.kind \in {"connection-failed", "tls-failed"} =>
              /\ fail.stage \in {"probe", "send"}
              /\ fail.stage = "probe" => Replied(400)
              /\ fail.stage = "send" => Replied(500)

\* The STARTTLS upgrade failed during the send and the answer is 500.
C8_TlsFailureInSend ==
    /\ pc = "done"
    /\ fail = [stage |-> "send", kind |-> "tls-failed"]
    /\ Replied(500)
    /\ \E i \in 1..Len(wire) : OnRelay(i) /\ wire[i].ev = "STARTTLS" /\ ~wire[i].ok

\* The caller left the field out or gave it empty.
Missing(j, f) == ~Supplied(j[f])

MissingFields(j) == {i \in 1..Len(FieldNames) : Missing(j, FieldNames[i])}

\* The first missing field, in the order of FieldNames.
FirstMissing(j) ==
    FieldNames[CHOOSE i \in MissingFields(j) : \A k \in MissingFields(j) : i <= k]

\* The literals of the sources that name a field in an error message: the
\* path of a schema issue, "<field> is required", and the decoder's texts
\* about smtp_port.
NamingLiterals(f) ==
    CASE f = "smtp_host" -> {"smtp_host", "smtp_host is required"}
      [] f = "smtp_port" -> {"smtp_port", "smtp_port is required",
                             "smtp_port must be a number", "invalid smtp_port: "}
      [] f = "username" -> {"username", "username is required"}
      [] f = "password" -> {"password", "password is required"}
      [] f = "to" -> {"to", "to is required"}
      [] f = "subject" -> {"subject", "subject is required"}
      [] OTHER -> {"body", "body is required"}

Names(msg, f) ==
    \E i \in 1..Len(msg) : msg[i].k = "lit" /\ msg[i].v \in NamingLiterals(f)

\* C9: a request in which one of smtp_host, smtp_port, username, password,
\* to, subject, body is missing or empty is rejected, and the message of
\* the rejection names the first missing field in that order, also when
\* the absent field is smtp_port.
C9_MissingFieldRejectedByName ==
    (pc # "idle" /\ ~json.malformed /\ MissingFields(json) # {}) =>
        /\ dials = 0
        /\ wst = "none"
        /\ pc \in {"bind", "parse", "validate", "done"}
        /\ pc = "done" =>
              Replied(400) /\ Names(resp[1].message, FirstMissing(json))

\* The passwords a request may carry.
Passwords == {x.s : x \in PassVals}

\* The validator has answered the request in hand.
Validated ==
    /\ pc \notin {"idle", "bind", "parse", "validate"}
    /\ impl # "node" => req # NoReq

CurrentPassword ==
    IF impl = "node" THEN GoString(json.password) ELSE req.Password

\* What the validator answers to the request in hand with password p in
\* the place of its own.
DecisionWith(p) ==
    IF impl = "node" THEN SchemaIssues([json EXCEPT !.password = JS(p)])
    ELSE GoValidator([req EXCEPT !.Password = p])

\* The message interpolates the value of the password field.
ShowsPassword(msg) == \E i \in 1..Len(msg) : msg[i] = F("password")

NoPasswordShown ==
    /\ \A i \in 1..Len(resp) : ~ShowsPassword(resp[i].message)
    /\ \A i \in 1..Len(logs) : ~ShowsPassword(logs[i].fields)

\* C10 as the specification has it: the password appears in no response
\* and in no log event, and two requests that differ only in the password
\* (and meet the same server behaviour) get the same log events and the
\* same response: whatever password stands in the place of the request's
\* own, the validator answers the same.
C10_PasswordNeverMatters ==
    /\ NoPasswordShown
    /\ Validated => \A p \in Passwords : DecisionWith(p) = DecisionWith(CurrentPassword)

\* C10, amended: the password appears in no response and in no log event,
\* and two requests that differ only in the value of a non-empty password
\* get the same log events and the same response.  (An empty password is
\* answered "password is required", a non-empty one is not.)
C10_PasswordValueNeverMatters ==
    /\ NoPasswordShown
    /\ (Validated /\ CurrentPassword # Str0) =>
          \A p \in Passwords \ {Str0} : DecisionWith(p) = DecisionWith(CurrentPassword)

\* The server refused the credentials, and the failure has been logged
\* and answered.
C10_CredentialsRefused ==
    /\ Validated
    /\ pc = "done"
    /\ CurrentPassword # Str0
    /\ fail.kind = "auth-failed"
    /\ Replied(500)
    /\ Len(logs) > 2
    /\ \E i \in 1..Len(wire) : wire[i].ev = "AUTH" /\ ~wire[i].ok

\* The connections made for the relay, and the messages handed to the server.
RelayDials == {i \in 1..Len(wire) : OnRelay(i) /\ wire[i].ev = "tcp"}
Transmissions == {i \in 1..Len(wire) : OnRelay(i) /\ wire[i].ev = "DATA"}

\* Nothing of a request is left when the handler waits for the next one.
NothingKept ==
    /\ json = Garbage /\ req = NoReq
    /\ resp = <<>> /\ logs = <<>>
    /\ dials = 0 /\ conns = <<>> /\ wire = <<>>
    /\ plan = <<>> /\ wst = "none" /\ errChan = <<>>
    /\ ~IsErr(werr.err) /\ ~IsErr(sendErr.err)
    /\ ~expired /\ fail = NoFail

AtMostOneAttempt ==
    /\ Cardinality(RelayDials) <= 1
    /\ Cardinality(Transmissions) <= 1
    /\ dials <= 2
    /\ pc = "idle" => NothingKept

\* Once the send function has returned, nothing more is dialled or sent for
\* the request.
NoSecondAttempt ==
    wst \in {"returned", "sent"} =>
        \/ dials' = dials /\ wire' = wire /\ conns' = conns
        \/ pc' = "idle"

\* C11: a request causes at most one relay attempt and at most one
\* transmission of the message; after a failure at any step nothing is
\* reconnected or resent for it, and nothing written while one request is
\* handled is there when the next one is handled.
C11_OneAttemptNoCarryOver ==
    []AtMostOneAttempt /\ [][NoSecondAttempt]_vars

\* A second request, after a first one, has failed in its only attempt.
C11_SecondRequestFailedOnce ==
    /\ served = 2
    /\ pc = "done"
    /\ fail.stage = "send"
    /\ IsErr(werr.err)
    /\ Cardinality(RelayDials) = 1
    /\ dials = 2

\* The same body with the port written in another way.
WithPort(j, p) == [j EXCEPT !.smtp_port = p]

\* The port is a JSON number without a fractional part.
IsIntNum(j) == j.t = "num" /\ j.frac = 0

\* The port is the decimal string of an integer.
IsDecimal(j) == j.t = "str" /\ AtoiOk(j.s) /\ Itoa(Atoi(j.s)) = j.s

\* The port is a string that is no number, or neither a number nor a string.
NotNumeric(j) == (j.t = "str" /\ ~AtoiOk(j.s)) \/ j.t \notin {"str", "num"}

\* The number and its decimal string decode to the same request, and so
\* get the same answer of the validator.
SameDecoding ==
    LET p == json.smtp_port
        twin == IF IsIntNum(p) THEN JS(Itoa(p.whole)) ELSE JN(Atoi(p.s), 0)
        d == UnmarshalJSON(json)
        e == UnmarshalJSON(WithPort(json, twin))
    IN (IsIntNum(p) \/ IsDecimal(p)) =>
          /\ d = e
          /\ ~IsErr(d.err)
          /\ d.req.SMTPPort = (IF IsIntNum(p) THEN p.whole ELSE Atoi(p.s))
          /\ ValidateEmailRequest(d.req) = ValidateEmailRequest(e.req)
          /\ pc \notin {"bind", "done"} => req = e.req

ProbePassed == Len(conns) >= 1 /\ conns[1].use = "probe"

\* C13: the pre-flight probe runs after the validation and before the
\* send; when it fails SendEmail is never invoked and the answer is 400
\* with "SMTP connection failed: ...", which tells it from a failure of
\* the send itself, answered 500 with "Failed to send email: ...".
C13_ProbeFailureIsDistinct ==
    impl # "node" =>
        /\ pc = "probe" =>
              /\ req # NoReq
              /\ ~IsErr(GoValidator(req))
              /\ dials = 0 /\ wst = "none"
        /\ (wst # "none" \/ pc \in {"send", "select", "blocked", "dialandsend", "reply"})
              => ProbePassed
        /\ fail.stage = "probe" =>
              /\ pc = "done"
              /\ Replied(400)
              /\ resp[1].message[1] = L("SMTP connection failed: ")
              /\ wst = "none"
              /\ dials <= 1
              /\ \A i \in 1..Len(wire) : ~OnRelay(i)
        /\ fail.stage = "send" =>
              /\ Replied(500)
              /\ resp[1].message[1] = L("Failed to send email: ")
              /\ ProbePassed

\* The probe could not connect, and the request has been answered.
C13_ProbeFailed ==
    /\ pc = "done"
    /\ fail = [stage |-> "probe", kind |-> "connection-failed"]
    /\ dials = 1
    /\ Replied(400)

\* The place of an event in a session.
Rank(ev) ==
    CASE ev = "tcp" -> 0
      [] ev = "tls" -> 1
      [] ev = "STARTTLS" -> 2
      [] ev = "AUTH" -> 3
      [] ev = "MAIL" -> 4
      [] ev = "RCPT" -> 5
      [] ev = "DATA" -> 6
      [] ev = "BODY" -> 7
      [] ev = "ENDDATA" -> 8
      [] OTHER -> 9

\* The command that must have been accepted before ev is issued.
Before(ev) ==
    CASE ev = "MAIL" -> "AUTH"
      [] ev = "RCPT" -> "MAIL"
      [] ev = "DATA" -> "RCPT"
      [] ev = "BODY" -> "DATA"
      [] ev = "ENDDATA" -> "BODY"
      [] OTHER -> "tcp"

\* AUTH, MAIL, RCPT, DATA, close, each after the one before was accepted.
StepsInOrder ==
    \A k \in 1..Len(wire) :
        OnRelay(k) =>
            /\ \A i \in 1..(k - 1) :
                  OnRelay(i) =>
                      /\ Rank(wire[i].ev) < Rank(wire[k].ev)
                      /\ ~wire[i].ok => wire[k].ev = "QUIT"
            /\ \E i \in 1..k :
                  OnRelay(i) /\ wire[i].ev = Before(wire[k].ev) /\ wire[i].ok

\* What each command carries.
StepsCarry ==
    \A k \in 1..Len(wire) :
        OnRelay(k) =>
            /\ wire[k].ev = "AUTH" =>
                  wire[k].data = <<L("PLAIN"), F("username"), F("password")>>
            /\ wire[k].ev = "MAIL" => wire[k].data = <<F("username")>>
            /\ wire[k].ev = "RCPT" => wire[k].data = <<F("to")>>
            /\ wire[k].ev = "BODY" =>
                  wire[k].data = <<L("To: "), F("to"), L("\r\nSubject: "),
                                   F("subject"), L("\r\n\r\n"), F("body")>>

\* On port 587 the credentials go out only after the upgrade succeeded.
UpgradeBeforeAuth ==
    \A k \in 1..Len(wire) :
        (OnRelay(k) /\ wire[k].ev = "AUTH") =>
            /\ wire[k].tls
            /\ \E i \in 1..(k - 1) :
                  OnRelay(i) /\ wire[i].ev = "STARTTLS" /\ wire[i].ok

\* C14: in every relay, on each of the three ports, the steps come in the
\* order AUTH (plain, username and password), MAIL FROM username, RCPT TO
\* to, DATA (To header, Subject header, blank line, body), close; on port
\* 587 the STARTTLS upgrade completes before AUTH; a step that fails stops
\* the sequence, and on port 587 no credentials go out before the upgrade.
C14_StepsInFixedOrder ==
    (impl = "gonet" /\ req # NoReq) =>
        /\ StepsInOrder
        /\ StepsCarry
        /\ PortStr(req) = Itoa(587) => UpgradeBeforeAuth
        /\ (wst \in {"returned", "sent"} /\ ~IsErr(werr.err)) =>
              /\ DataAccepted
              /\ \A c \in 1..Len(conns) : ~conns[c].open

\* A relay on port 587 went through to the end of the data.
C14_Relayed587 ==
    /\ impl = "gonet"
    /\ req # NoReq
    /\ PortStr(req) = Itoa(587)
    /\ wst = "returned"
    /\ DataAccepted
    /\ \E k \in 1..Len(wire) : OnRelay(k) /\ wire[k].ev = "AUTH" /\ wire[k].ok

\* The first rule the request violates, in the order: presence of the seven
\* fields, shape of the host, port in the supported set, "@" in username
\* and to; "" when it violates none.
FirstViolated(r) ==
    LET noPort == IF impl = "gonet" THEN r.SMTPPort = Str0 ELSE r.SMTPPort = 0
    IN IF \/ r.SMTPHost = Str0 \/ noPort \/ r.Username = Str0
          \/ r.Password = Str0 \/ r.To = Str0 \/ r.Subject = Str0
          \/ r.Body = Str0
       THEN "presence"
       ELSE IF ~Contains(r.SMTPHost, ".") THEN "host"
       ELSE IF PortStr(r) \notin {Itoa(25), Itoa(587), Itoa(465)} THEN "port"
       ELSE IF ~Contains(r.Username, "@") \/ ~Contains(r.To, "@") THEN "address"
       ELSE ""

\* The rule an error of the validator is about.
RuleOf(e) ==
    IF e = NoErr THEN ""
    ELSE CASE e[1].v \in {"smtp_host is required", "smtp_port is required",
                          "username is required", "password is required",
                          "to is required", "subject is required",
                          "body is required"} -> "presence"
           [] e[1].v = "invalid SMTP host format" -> "host"
           [] e[1].v \in {"unsupported SMTP port: ",
                          "invalid SMTP port. Use 25, 587, or 465"} -> "port"
           [] OTHER -> "address"

\* C15: ValidateEmailRequest reports the error of the first failing rule
\* in the fixed order (1) presence of smtp_host, smtp_port, username,
\* password, to, subject, body, (2) smtp_host contains a ".", (3) smtp_port
\* in {25, 587, 465}, (4) username and to contain "@"; it answers Ok only
\* when no rule is violated.
C15_FirstFailingRuleReported ==
    (impl # "node" /\ Validated) =>
        RuleOf(GoValidator(req)) = FirstViolated(req)

AllClosed == \A c \in 1..Len(conns) : ~conns[c].open

\* C16: every connection opened for a request, the one of the probe and the
\* one of the relay, is closed on every return path of the function that
\* opened it, the error paths included; the connection of the probe is
\* closed before the one of the relay is opened, and no connection is used
\* again by a later request.
C16_ConnectionsClosedOnReturn ==
    /\ \A c \in 1..Len(conns) : conns[c].use = "probe" => ~conns[c].open
    /\ (impl = "gonet" /\ wst \in {"returned", "sent"}) => AllClosed
    /\ \A c \in 1..Len(conns) :
          conns[c].open => c = Len(conns) /\ wst = "running"
    /\ \A k \in 1..Len(wire) :
          \E i \in 1..k :
              /\ wire[i].conn = wire[k].conn
              /\ wire[i].use = wire[k].use
              /\ wire[i].ev = "tcp"
    /\ pc = "idle" => conns = <<>> /\ wire = <<>>

\* The send function has returned on an error path after it had connected:
\* the server refused the credentials.
C16_ReturnedAfterAuthFailure ==
    /\ impl = "gonet"
    /\ wst = "returned"
    /\ werr.kind = "auth-failed"
    /\ Len(conns) = 2
    /\ conns[2].use = "relay"
    /\ ~conns[2].open

\* C17: when the relay is reached with an smtp_port outside {25, 587, 465}
\* (the validation bypassed), TestSMTPConnection and SendEmail both return
\* an unsupported-port failure and open no connection: nothing is ever
\* dialled on an unsupported port, and the call that was not cut short by
\* the deadline ends in an unsupported-port failure.
C17_UnsupportedPortNeverDialled ==
    (req # NoReq /\ PortStr(req) \notin {Itoa(25), Itoa(587), Itoa(465)}) =>
        /\ dials = 0
        /\ conns = <<>>
        /\ (pc = "done" /\ ~expired) => fail.kind = "unsupported-port"

\* The worker stands at its send, errChan <- err.
AtSend == impl = "gonet" /\ wst = "returned"

\* SendEmail has returned what it received from the worker.
ReturnedResult ==
    /\ wst = "sent"
    /\ sendErr = werr
    /\ errChan = <<>>

\* SendEmail has returned the timeout error; what the worker sends stays in
\* the channel.
ReturnedTimeout ==
    /\ expired
    /\ sendErr = TimeoutErr
    /\ wst = "sent" => errChan = <<werr>>

\* C18: the worker's one send on errChan never blocks, whatever the deadline
\* does: whenever the worker stands at its send the send can proceed, so the
\* worker ends even after SendEmail has returned the timeout; the channel
\* never holds more than one value; and SendEmail returns exactly one of the
\* worker's result and the timeout error.
C18_WorkerSendNeverBlocks ==
    /\ Len(errChan) <= 1
    /\ AtSend => (pc = "blocked" \/ RoomIn(errChan))
    /\ (impl = "gonet" /\ pc = "reply") =>
          /\ ReturnedResult \/ ReturnedTimeout
          /\ ~(ReturnedResult /\ ReturnedTimeout)

\* SendEmail returned the timeout while the SMTP operation was in progress,
\* and the worker has sent its result since.
C18_SentAfterTimeout ==
    /\ impl = "gonet"
    /\ pc \in {"reply", "done"}
    /\ cutoff
    /\ sendErr = TimeoutErr
    /\ wst = "sent"
    /\ errChan = <<werr>>

\* The request went past ValidateEmailRequest without an error.
PassedValidation ==
    /\ impl # "node"
    /\ Validated
    /\ fail.stage \notin {"decode", "validate"}

\* C19: decoding preserves the numeric value of smtp_port: a request passes
\* the port validation only if the value the caller supplied denotes exactly
\* the integer 25, 587 or 465; a number with a fractional part is never
\* turned into a supported port and accepted.
C19_AcceptedPortIsExact ==
    PassedValidation => PortInSet(json.smtp_port)

===========================================================================
